---- MODULE Spec2Model ----
(***************************************************************************)
(* A model of DatastoreSolrBackend (ckanext/datastore_search/backend/      *)
(* solr.py): the create and delete operations of the backend, each cut at  *)
(* its remote calls, against a model of the SOLR server they talk to.      *)
(***************************************************************************)
EXTENDS Integers, Sequences, FiniteSets, TLC

(***************************************************************************)
(* Bounds of the model.                                                    *)
(***************************************************************************)
\* the longest data_dict['fields'] list a create call is given
MaxFields == 2
\* the largest number of (key, value) pairs in data_dict['filters']
MaxFilters == 2
MaxRecords == 2

(***************************************************************************)
(* The finite universe the inputs are drawn from.                          *)
(***************************************************************************)
Callers == {"c1", "c2"}
Resources == {"r1", "r2"}
\* DataStore field ids: two ordinary columns and one default SOLR field name
DsFieldIds == {"a", "b", "_id"}
\* DataStore types: two that map to the same SOLR type, one that maps to
\* another, and one with no entry in field_type_map (a geometric type)
DsFieldTypes == {"integer", "bigint", "text", "geometry"}
\* document ids and the values of column "a"
DocIds == {"1", "2"}
DocValues == {"x", "y"}

(***************************************************************************)
(* Class attributes of DatastoreSolrBackend.                               *)
(***************************************************************************)
default_solr_fields == {"_id", "_version_", "indexed_ts"}

field_type_map ==
    "smallint" :> "int" @@ "integer" :> "int" @@ "bigint" :> "int" @@
    "decimal" :> "float" @@ "numeric" :> "float" @@
    "real" :> "double" @@ "double precision" :> "double" @@
    "smallserial" :> "int" @@ "serial" :> "int" @@ "bigserial" :> "int" @@
    "money" :> "float" @@
    "character varying" :> "text" @@ "varchar" :> "text" @@
    "character" :> "text" @@ "char" :> "text" @@ "bpchar" :> "text" @@
    "text" :> "text" @@
    "bytea" :> "binary" @@
    "timestamp" :> "date" @@ "date" :> "date" @@ "time" :> "date" @@
    "interval" :> "date" @@
    "boolean" :> "boolean"

(***************************************************************************)
(* Sequence helpers.                                                       *)
(***************************************************************************)
Range(s) == {s[i] : i \in DOMAIN s}

\* the lists of at most n elements of S
SeqsUpTo(S, n) == UNION {[1..k -> S] : k \in 0..n}

\* the types each field id is tried with: column "a" with every type, column
\* "b" and the default field with a mapped and an unmapped one
FieldTypesOf(id) ==
    IF id = "a" THEN DsFieldTypes
    ELSE IF id = "b" THEN {"integer", "text", "geometry"}
    ELSE {"integer", "geometry"}

\* data_dict['fields']: Field = {id, type}, unique by id within a field set
Fields == {f \in [id : DsFieldIds, type : DsFieldTypes] : f.type \in FieldTypesOf(f.id)}
FieldLists ==
    {D \in SeqsUpTo(Fields, MaxFields) :
        \A i, j \in DOMAIN D : D[i].id = D[j].id => i = j}

\* data_dict['filters']: missing (None), or a mapping in insertion order
FilterPairs == [key : {"_id"}, value : DocIds] \cup [key : {"a"}, value : DocValues]
FilterArgs ==
    {[present |-> FALSE, items |-> <<>>]} \cup
    {[present |-> TRUE, items |-> F] : F \in
        {F \in SeqsUpTo(FilterPairs, MaxFilters) :
            \A i, j \in DOMAIN F : F[i].key = F[j].key => i = j}}

(***************************************************************************)
(* The SOLR server: one core per resource.  A core that is not loaded has  *)
(* no schema; its index, if it had one, stays on disk.  A core made from   *)
(* the 'datastore_resource' configSet holds the default fields only; their *)
(* types are the configSet's, which no DataStore type maps to.             *)
(***************************************************************************)
IndexField(n, t) == [name |-> n, type |-> t, stored |-> TRUE, indexed |-> TRUE]

DefaultSchema == {IndexField(n, "configset") : n \in default_solr_fields}

NoCore == [loaded |-> FALSE, schema |-> {}, docs |-> {}, visible |-> {}]

NewCore == [loaded |-> TRUE, schema |-> DefaultSchema, docs |-> {}, visible |-> {}]

\* a core created where an unloaded core left its index, and a core unloaded
Created(core) == [NewCore EXCEPT !.docs = core.docs, !.visible = core.visible]
Unloaded(core) == [NoCore EXCEPT !.docs = core.docs, !.visible = core.visible]

\* the names of a schema, and the field of a given name
Names(schema) == {f.name : f \in schema}
FieldOf(schema, n) == CHOOSE f \in schema : f.name = n

\* GET schema/fields answers with the fields sorted by name
NameOrder == <<"_id", "_version_", "a", "b", "indexed_ts">>

SchemaFields(schema) ==
    LET present == SelectSeq(NameOrder, LAMBDA n : n \in Names(schema))
    IN  [i \in 1..Len(present) |-> FieldOf(schema, present[i])]

\* the schemas a loaded core may hold: the default fields, and each of the
\* columns "a" and "b" absent or of one SOLR type
LiveTypes == {"int", "text"}
UserSchemas ==
    {{IndexField("a", t) : t \in ta} \cup {IndexField("b", t) : t \in tb} :
        ta \in {{}} \cup {{t} : t \in LiveTypes},
        tb \in {{}} \cup {{t} : t \in LiveTypes}}

Docs == [_id : DocIds, a : DocValues]

VARIABLES
    cores,          \* the server: resource id -> core
    debug,          \* config.get('debug') as its raise read it
    active,         \* the callers that issue requests
    pc,             \* each caller's position in its operation
    op,             \* the operation a caller runs: create, delete, upsert
    data_dict,      \* its data_dict argument
    connection,     \* whether it was handed a connection
    conn,           \* its local conn (TRUE: a connection, FALSE: None)
    errmsg,         \* its local errmsg ("unbound" until assigned)
    solr_fields,    \* its read of schema/fields
    new_fields,     \* the add-field bodies it scheduled
    updated_fields, \* the replace-field bodies it scheduled
    remove_fields,  \* the delete-field bodies it scheduled
    idx,            \* its position in the loop it runs
    calls,          \* the remote calls it issued, in order, with outcomes
    failed,         \* whether one of its remote calls failed
    result,         \* how its operation ended
    pre,            \* the server's cores when its operation began
    again,          \* whether its create repeats the create before it
    records,        \* data_dict['records'] of its upsert
    ds              \* the fields its upsert read from the data source

remote == <<cores, active>>
diff   == <<solr_fields, new_fields, updated_fields, remove_fields>>
outer  == <<records, ds>>
vars   == <<cores, debug, active, pc, op, data_dict, connection, conn, errmsg,
            solr_fields, new_fields, updated_fields, remove_fields, idx,
            calls, failed, result, pre, again, records, ds>>

NoArgs == [resource_id |-> "r1", fields |-> <<>>,
           filters |-> [present |-> FALSE, items |-> <<>>]]

\* every caller idle, nothing of a call left over
Idle ==
    /\ pc = [p \in Callers |-> "idle"]
    /\ op = [p \in Callers |-> "none"]
    /\ data_dict = [p \in Callers |-> NoArgs]
    /\ connection = [p \in Callers |-> FALSE]
    /\ conn = [p \in Callers |-> FALSE]
    /\ errmsg = [p \in Callers |-> "unbound"]
    /\ solr_fields = [p \in Callers |-> <<>>]
    /\ new_fields = [p \in Callers |-> <<>>]
    /\ updated_fields = [p \in Callers |-> <<>>]
    /\ remove_fields = [p \in Callers |-> <<>>]
    /\ idx = [p \in Callers |-> 0]
    /\ calls = [p \in Callers |-> <<>>]
    /\ failed = [p \in Callers |-> FALSE]
    /\ result = [p \in Callers |-> "none"]
    /\ again = [p \in Callers |-> FALSE]
    /\ debug = [p \in Callers |-> "unread"]
    /\ records = [p \in Callers |-> <<>>]
    /\ ds = [p \in Callers |-> <<>>]

\* One caller; the core of r1 is absent or holds any schema, the core of r2
\* is loaded and holds a column and a document.
Bystander ==
    [loaded |-> TRUE, schema |-> DefaultSchema \cup {IndexField("a", "text")},
     docs |-> {[_id |-> "1", a |-> "x"]}, visible |-> {[_id |-> "1", a |-> "x"]}]

Init ==
    /\ Idle
    /\ active = {"c1"}
    /\ \E c \in {NoCore} \cup {[NewCore EXCEPT !.schema = DefaultSchema \cup s] :
                                 s \in UserSchemas} :
         cores = [r \in Resources |-> IF r = "r1" THEN c ELSE Bystander]
    /\ pre = [p \in Callers |-> cores]

(***************************************************************************)
(* How a step ends and what it records.                                    *)
(***************************************************************************)
Rid(p) == data_dict[p].resource_id

Goto(p, label) == pc' = [pc EXCEPT ![p] = label]

\* the call returns (kind = "ok") or raises an exception of a kind
End(p, kind) ==
    /\ pc' = [pc EXCEPT ![p] = "done"]
    /\ result' = [result EXCEPT ![p] = kind]

\* calls.append(c); a call that did not answer "ok" has failed
Log(p, c) ==
    /\ calls' = [calls EXCEPT ![p] = Append(@, c)]
    /\ failed' = [failed EXCEPT ![p] = @ \/ c.outcome # "ok"]

\* raise DatastoreSearchException(errmsg if not config.get('debug') else ...):
\* with debug off errmsg is read, and reading it before it was assigned
\* raises UnboundLocalError instead
Raised(dbg, em) ==
    IF dbg = "off" /\ em = "unbound" THEN "UnboundLocalError"
    ELSE "DatastoreSearchException"

\* the raise, under either setting of config 'debug'
RaiseSearchException(p, em) ==
    \E dbg \in {"on", "off"} :
        /\ debug' = [debug EXCEPT ![p] = dbg]
        /\ End(p, Raised(dbg, em))

(***************************************************************************)
(* _make_connection: the ping of a core.  A core that is not loaded        *)
(* answers absent; a loaded one answers, or the ping fails and the probe   *)
(* reports absent all the same.                                            *)
(***************************************************************************)
PingOutcomes(core) == IF core.loaded THEN {"ok", "SolrError"} ELSE {"absent"}

\* the probe's log entry: absent is an answer, a failed ping of a loaded
\* core is a failure
LogPing(p, o) ==
    /\ calls' = [calls EXCEPT ![p] =
                    Append(@, [api |-> "ping", core |-> Rid(p), body |-> <<>>,
                               outcome |-> o])]
    /\ failed' = [failed EXCEPT ![p] = @ \/ o = "SolrError"]

(***************************************************************************)
(* create, lines 107-221.                                                  *)
(***************************************************************************)
\* a create request arrives: create(context, data_dict, connection), for
\* resource r1 (the core of r2 stands by), with any field list, with or
\* without a connection
CallCreate(p) ==
    /\ p \in active
    /\ pc[p] = "idle"
    /\ \E D \in FieldLists, given \in BOOLEAN :
        /\ data_dict' = [data_dict EXCEPT ![p] = [NoArgs EXCEPT !.fields = D]]
        /\ connection' = [connection EXCEPT ![p] = given]
    /\ pc' = [pc EXCEPT ![p] = "create_connect"]
    /\ op' = [op EXCEPT ![p] = "create"]
    /\ pre' = [pre EXCEPT ![p] = cores]
    /\ UNCHANGED <<remote, outer, conn, errmsg, diff, idx, calls, failed, result, again,
                   debug>>

\* lines 114-117: conn = self._make_connection(...) if not connection else connection
CreateConnect(p) ==
    /\ pc[p] = "create_connect"
    /\ IF connection[p]
       THEN /\ conn' = [conn EXCEPT ![p] = TRUE]
            /\ Goto(p, "read_schema")
            /\ UNCHANGED <<calls, failed>>
       ELSE \E o \in PingOutcomes(cores[Rid(p)]) :
            /\ conn' = [conn EXCEPT ![p] = (o = "ok")]
            /\ LogPing(p, o)
            /\ Goto(p, IF o = "ok" THEN "read_schema" ELSE "create_core")
    /\ UNCHANGED <<remote, outer, op, data_dict, connection, errmsg, diff, idx, result,
                   pre, again, debug>>

\* what the cores endpoint may answer to a create: an existing core is
\* refused; the request may also fail in transport (requests raises)
CreateCoreOutcomes(core) ==
    IF core.loaded THEN {"error", "RequestException"}
    ELSE {"ok", "error", "RequestException"}

\* (mutant) the answer of the cores endpoint is not looked at
CreateCore_Unchecked(p) ==
    /\ pc[p] = "create_core"
    /\ errmsg' = [errmsg EXCEPT ![p] = "Could not create SOLR core"]
    /\ \E o \in CreateCoreOutcomes(cores[Rid(p)]) :
        /\ Log(p, [api |-> "create-core", core |-> Rid(p),
                   body |-> [name |-> Rid(p), configSet |-> "datastore_resource"],
                   outcome |-> o])
        /\ cores' = IF o = "ok" THEN [cores EXCEPT ![Rid(p)] = Created(@)] ELSE cores
        /\ IF o = "RequestException"
           THEN End(p, "RequestException") /\ UNCHANGED debug
           ELSE Goto(p, "create_reconnect") /\ UNCHANGED <<result, debug>>
    /\ UNCHANGED <<active, outer, op, data_dict, connection, conn, diff, idx, pre, again>>

\* lines 118-127: POST cores {'create': [...]}, and the check of its answer
CreateCore(p) ==
    /\ pc[p] = "create_core"
    /\ errmsg' = [errmsg EXCEPT ![p] = "Could not create SOLR core"]
    /\ \E o \in CreateCoreOutcomes(cores[Rid(p)]) :
        /\ Log(p, [api |-> "create-core", core |-> Rid(p),
                   body |-> [name |-> Rid(p), configSet |-> "datastore_resource"],
                   outcome |-> o])
        /\ cores' = IF o = "ok" THEN [cores EXCEPT ![Rid(p)] = Created(@)] ELSE cores
        /\ IF o = "ok" THEN Goto(p, "create_reconnect") /\ UNCHANGED <<result, debug>>
           ELSE IF o = "error"
                THEN RaiseSearchException(p, "Could not create SOLR core")
           ELSE End(p, "RequestException") /\ UNCHANGED debug
    /\ UNCHANGED <<active, outer, op, data_dict, connection, conn, diff, idx, pre, again>>

\* (mutant) the answer of the probe after creation is not looked at
CreateReconnect_Unchecked(p) ==
    /\ pc[p] = "create_reconnect"
    /\ \E o \in PingOutcomes(cores[Rid(p)]) :
        /\ conn' = [conn EXCEPT ![p] = (o = "ok")]
        /\ LogPing(p, o)
        /\ Goto(p, "read_schema")
    /\ UNCHANGED <<remote, outer, op, data_dict, connection, errmsg, diff, idx, result,
                   pre, again, debug>>

\* lines 128-131: the probe after creation
CreateReconnect(p) ==
    /\ pc[p] = "create_reconnect"
    /\ \E o \in PingOutcomes(cores[Rid(p)]) :
        /\ conn' = [conn EXCEPT ![p] = (o = "ok")]
        /\ LogPing(p, o)
        /\ IF o = "ok" THEN Goto(p, "read_schema") /\ UNCHANGED result
           ELSE End(p, "DatastoreSearchException")
    /\ UNCHANGED <<remote, outer, op, data_dict, connection, errmsg, diff, idx, pre, again,
                   debug>>

\* a request on a connection: a core that is not loaded cannot answer
ReadOutcomes(core) == IF core.loaded THEN {"ok", "SolrError"} ELSE {"SolrError"}

\* lines 133-138: GET schema/fields
ReadSchema(p) ==
    /\ pc[p] = "read_schema"
    /\ \E o \in ReadOutcomes(cores[Rid(p)]) :
        /\ Log(p, [api |-> "schema/fields", core |-> Rid(p), body |-> <<>>,
                   outcome |-> o])
        /\ IF o = "ok"
           THEN /\ solr_fields' = [solr_fields EXCEPT ![p] =
                                     SchemaFields(cores[Rid(p)].schema)]
                /\ Goto(p, "diff")
                /\ UNCHANGED <<result, debug>>
           ELSE /\ RaiseSearchException(p, errmsg[p])
                /\ UNCHANGED solr_fields
    /\ UNCHANGED <<remote, outer, op, data_dict, connection, conn, errmsg, new_fields,
                   updated_fields, remove_fields, idx, pre, again>>

(***************************************************************************)
(* The diff of lines 139-164, as functions of the desired fields D and of  *)
(* the fields read.                                                        *)
(***************************************************************************)
\* (mutant) the default fields are not left out
KeyedSolrFields_KeepDefaults(fields) == fields

\* lines 139-143: the fields read, the default ones left out
KeyedSolrFields(fields) ==
    SelectSeq(fields, LAMBDA f : f.name \notin default_solr_fields)

KeyedNames(keyed) == {keyed[i].name : i \in DOMAIN keyed}
Keyed(keyed, n) == keyed[CHOOSE i \in DOMAIN keyed : keyed[i].name = n]

\* (mutant) the lookup never raises: field_type_map.get(...)
HasUnmappedType_Never(D) == FALSE

\* self.field_type_map[ds_field['type']] raises KeyError for a type that has
\* no entry; lines 155 and 159 look every field's type up
HasUnmappedType(D) == \E i \in DOMAIN D : D[i].type \notin DOMAIN field_type_map

\* the value of self.field_type_map[t] where the lookup does not raise
MappedType(t) == IF t \in DOMAIN field_type_map THEN field_type_map[t] ELSE "None"

\* lines 150-151
DsFieldIdsOf(D) ==
    LET kept == SelectSeq(D, LAMBDA f : f.id \notin default_solr_fields)
    IN  [i \in DOMAIN kept |-> kept[i].id]

\* lines 152-158
NewFields(D, keyed) ==
    LET absent == SelectSeq(D, LAMBDA f : f.id \notin KeyedNames(keyed))
    IN  [i \in DOMAIN absent |->
            [name |-> absent[i].id, type |-> MappedType(absent[i].type),
             stored |-> TRUE, indexed |-> TRUE]]

\* (mutant) the DataStore type itself is compared with the live type
UpdatedFields_NativeCompare(D, keyed) ==
    LET differ == SelectSeq(D, LAMBDA f :
                     /\ f.id \in {keyed[i].name : i \in DOMAIN keyed}
                     /\ f.type # keyed[CHOOSE i \in DOMAIN keyed :
                                         keyed[i].name = f.id].type)
    IN  [i \in DOMAIN differ |->
            [keyed[CHOOSE j \in DOMAIN keyed : keyed[j].name = differ[i].id]
                EXCEPT !.type = field_type_map[differ[i].type]]]

\* lines 159-162
UpdatedFields(D, keyed) ==
    LET differ == SelectSeq(D, LAMBDA f :
                     /\ f.id \in KeyedNames(keyed)
                     /\ MappedType(f.type) # Keyed(keyed, f.id).type)
    IN  [i \in DOMAIN differ |->
            [Keyed(keyed, differ[i].id) EXCEPT !.type = MappedType(differ[i].type)]]

\* (mutant) no live field is scheduled for removal
RemoveFields_None(D, keyed) == <<>>

\* lines 163-164
RemoveFields(D, keyed) ==
    LET stale == SelectSeq(keyed, LAMBDA f : f.name \notin Range(DsFieldIdsOf(D)))
    IN  [i \in DOMAIN stale |-> [name |-> stale[i].name]]

\* (mutant) the removals run first, then the adds, then the updates
LoopAfter_RemoveFirst(label, new, upd, rem) ==
    IF label = "diff" /\ rem # <<>> THEN "remove_fields"
    ELSE IF label \in {"diff", "remove_fields"} /\ new # <<>> THEN "add_fields"
    ELSE IF label \in {"diff", "remove_fields", "add_fields"} /\ upd # <<>>
         THEN "update_fields"
    ELSE "create_return"

\* the loop that runs next, from the add loop on: an empty list's loop is skipped
LoopAfter(label, new, upd, rem) ==
    IF label = "diff" /\ new # <<>> THEN "add_fields"
    ELSE IF label \in {"diff", "add_fields"} /\ upd # <<>> THEN "update_fields"
    ELSE IF label \in {"diff", "add_fields", "update_fields"} /\ rem # <<>>
         THEN "remove_fields"
    ELSE "create_return"

\* (mutant) the diff is taken against the schema as it is now, not as read
Diff_FromLive(p) ==
    /\ pc[p] = "diff"
    /\ LET D == data_dict[p].fields
           keyed == KeyedSolrFields(SchemaFields(cores[Rid(p)].schema))
       IN  IF HasUnmappedType(D)
           THEN /\ End(p, "KeyError")
                /\ UNCHANGED <<new_fields, updated_fields, remove_fields, idx>>
           ELSE /\ new_fields' = [new_fields EXCEPT ![p] = NewFields(D, keyed)]
                /\ updated_fields' = [updated_fields EXCEPT ![p] = UpdatedFields(D, keyed)]
                /\ remove_fields' = [remove_fields EXCEPT ![p] = RemoveFields(D, keyed)]
                /\ idx' = [idx EXCEPT ![p] = 1]
                /\ Goto(p, LoopAfter("diff", NewFields(D, keyed),
                                     UpdatedFields(D, keyed), RemoveFields(D, keyed)))
                /\ UNCHANGED result
    /\ UNCHANGED <<remote, outer, op, data_dict, connection, conn, errmsg, solr_fields,
                   calls, failed, pre, again, debug>>

\* lines 139-164
Diff(p) ==
    /\ pc[p] = "diff"
    /\ LET D == data_dict[p].fields
           keyed == KeyedSolrFields(solr_fields[p])
       IN  IF HasUnmappedType(D)
           THEN /\ End(p, "KeyError")
                /\ UNCHANGED <<new_fields, updated_fields, remove_fields, idx>>
           ELSE /\ new_fields' = [new_fields EXCEPT ![p] = NewFields(D, keyed)]
                /\ updated_fields' = [updated_fields EXCEPT ![p] = UpdatedFields(D, keyed)]
                /\ remove_fields' = [remove_fields EXCEPT ![p] = RemoveFields(D, keyed)]
                /\ idx' = [idx EXCEPT ![p] = 1]
                /\ Goto(p, LoopAfter("diff", NewFields(D, keyed),
                                     UpdatedFields(D, keyed), RemoveFields(D, keyed)))
                /\ UNCHANGED result
    /\ UNCHANGED <<remote, outer, op, data_dict, connection, conn, errmsg, solr_fields,
                   calls, failed, pre, again, debug>>

(***************************************************************************)
(* The schema API of a core: POST schema with one add-field, replace-field *)
(* or delete-field command.  The server refuses to add a field it has and  *)
(* to replace or delete one it has not; any request may fail.              *)
(***************************************************************************)
SchemaAccepts(core, api, f) ==
    /\ core.loaded
    /\ IF api = "add-field" THEN f.name \notin Names(core.schema)
       ELSE f.name \in Names(core.schema)

SchemaOutcomes(core, api, f) ==
    IF SchemaAccepts(core, api, f) THEN {"ok", "SolrError", "error"}
    ELSE {"SolrError", "error"}

\* the schema after a command the server applied
SchemaAfter(schema, api, f) ==
    IF api = "add-field" THEN schema \cup {f}
    ELSE IF api = "replace-field"
         THEN (schema \ {FieldOf(schema, f.name)}) \cup {f}
    ELSE schema \ {FieldOf(schema, f.name)}

\* (mutant) a command that fails is passed over and the loop goes on
SchemaCall_Continue(p, label, api, list, msg) ==
    /\ pc[p] = label
    /\ LET f == list[idx[p]]
           core == cores[Rid(p)]
       IN  \E o \in SchemaOutcomes(core, api, f) :
            /\ errmsg' = [errmsg EXCEPT ![p] = msg]
            /\ Log(p, [api |-> api, core |-> Rid(p), body |-> f, outcome |-> o])
            /\ cores' = IF o = "ok"
                        THEN [cores EXCEPT ![Rid(p)].schema = SchemaAfter(@, api, f)]
                        ELSE cores
            /\ IF idx[p] < Len(list)
               THEN /\ idx' = [idx EXCEPT ![p] = @ + 1]
                    /\ UNCHANGED pc
               ELSE /\ idx' = [idx EXCEPT ![p] = 1]
                    /\ Goto(p, LoopAfter(label, new_fields[p],
                                         updated_fields[p], remove_fields[p]))
            /\ UNCHANGED <<result, debug>>
    /\ UNCHANGED <<active, outer, op, data_dict, connection, conn, diff, pre, again>>

\* one pass of a loop of lines 166-212: the command for list[idx], and the
\* raise of DatastoreSearchException on SolrError or on an 'error' answer
SchemaCall(p, label, api, list, msg) ==
    /\ pc[p] = label
    /\ LET f == list[idx[p]]
           core == cores[Rid(p)]
       IN  \E o \in SchemaOutcomes(core, api, f) :
            /\ errmsg' = [errmsg EXCEPT ![p] = msg]
            /\ Log(p, [api |-> api, core |-> Rid(p), body |-> f, outcome |-> o])
            /\ IF o = "ok"
               THEN /\ cores' = [cores EXCEPT ![Rid(p)].schema =
                                    SchemaAfter(@, api, f)]
                    /\ IF idx[p] < Len(list)
                       THEN /\ idx' = [idx EXCEPT ![p] = @ + 1]
                            /\ UNCHANGED pc
                       ELSE /\ idx' = [idx EXCEPT ![p] = 1]
                            /\ Goto(p, LoopAfter(label, new_fields[p],
                                                 updated_fields[p], remove_fields[p]))
                    /\ UNCHANGED <<result, debug>>
               ELSE /\ RaiseSearchException(p, msg)
                    /\ UNCHANGED <<cores, idx>>
    /\ UNCHANGED <<active, outer, op, data_dict, connection, conn, diff, pre, again>>

\* lines 166-180
AddField(p) ==
    SchemaCall(p, "add_fields", "add-field", new_fields[p], "Could not add field")

\* lines 182-196
UpdateField(p) ==
    SchemaCall(p, "update_fields", "replace-field", updated_fields[p],
               "Could not update field")

\* lines 198-212
RemoveField(p) ==
    SchemaCall(p, "remove_fields", "delete-field", remove_fields[p],
               "Could not delete field")

\* line 217: whether something has changed
Changed(p) == new_fields[p] # <<>> \/ updated_fields[p] # <<>> \/ remove_fields[p] # <<>>

\* lines 217-221: the value create hands back: the bare return of line 219
\* where something has changed, the end of the function body where nothing has
CreateReturnValue(p) == IF Changed(p) THEN "None" ELSE "None"

\* lines 217-221: both branches return None, to the caller of create or, from
\* line 241, into the upsert that called it
CreateReturn(p) ==
    /\ pc[p] = "create_return"
    /\ IF op[p] = "upsert" THEN Goto(p, "upsert_reconnect") /\ UNCHANGED result
       ELSE End(p, "ok")
    /\ UNCHANGED <<remote, outer, op, data_dict, connection, conn, errmsg, diff, idx,
                   calls, failed, pre, again, debug>>

\* the caller takes the outcome; the call's locals are gone
Return(p) ==
    /\ pc[p] = "done"
    /\ pc' = [pc EXCEPT ![p] = "idle"]
    /\ op' = [op EXCEPT ![p] = "none"]
    /\ data_dict' = [data_dict EXCEPT ![p] = NoArgs]
    /\ connection' = [connection EXCEPT ![p] = FALSE]
    /\ conn' = [conn EXCEPT ![p] = FALSE]
    /\ errmsg' = [errmsg EXCEPT ![p] = "unbound"]
    /\ solr_fields' = [solr_fields EXCEPT ![p] = <<>>]
    /\ new_fields' = [new_fields EXCEPT ![p] = <<>>]
    /\ updated_fields' = [updated_fields EXCEPT ![p] = <<>>]
    /\ remove_fields' = [remove_fields EXCEPT ![p] = <<>>]
    /\ idx' = [idx EXCEPT ![p] = 0]
    /\ calls' = [calls EXCEPT ![p] = <<>>]
    /\ failed' = [failed EXCEPT ![p] = FALSE]
    /\ result' = [result EXCEPT ![p] = "none"]
    /\ again' = [again EXCEPT ![p] = FALSE]
    /\ debug' = [debug EXCEPT ![p] = "unread"]
    /\ pre' = [pre EXCEPT ![p] = cores]
    /\ records' = [records EXCEPT ![p] = <<>>]
    /\ ds' = [ds EXCEPT ![p] = <<>>]
    /\ UNCHANGED remote

\* the caller of a create that returned calls create again at once, with the
\* same data_dict and connection
CreateAgain(p) ==
    /\ pc[p] = "done"
    /\ op[p] = "create"
    /\ result[p] = "ok"
    /\ ~again[p]
    /\ pc' = [pc EXCEPT ![p] = "create_connect"]
    /\ again' = [again EXCEPT ![p] = TRUE]
    /\ conn' = [conn EXCEPT ![p] = FALSE]
    /\ errmsg' = [errmsg EXCEPT ![p] = "unbound"]
    /\ solr_fields' = [solr_fields EXCEPT ![p] = <<>>]
    /\ new_fields' = [new_fields EXCEPT ![p] = <<>>]
    /\ updated_fields' = [updated_fields EXCEPT ![p] = <<>>]
    /\ remove_fields' = [remove_fields EXCEPT ![p] = <<>>]
    /\ idx' = [idx EXCEPT ![p] = 0]
    /\ calls' = [calls EXCEPT ![p] = <<>>]
    /\ failed' = [failed EXCEPT ![p] = FALSE]
    /\ result' = [result EXCEPT ![p] = "none"]
    /\ pre' = [pre EXCEPT ![p] = cores]
    /\ UNCHANGED <<remote, outer, op, data_dict, connection, debug>>

(***************************************************************************)
(* delete, lines 278-316.                                                  *)
(***************************************************************************)
\* a delete request arrives: delete(context, data_dict, connection)
CallDelete(p) ==
    /\ p \in active
    /\ pc[p] = "idle"
    /\ \E rid \in Resources, F \in FilterArgs, given \in BOOLEAN :
        /\ data_dict' = [data_dict EXCEPT ![p] = [NoArgs EXCEPT !.resource_id = rid,
                                                                !.filters = F]]
        /\ connection' = [connection EXCEPT ![p] = given]
    /\ pc' = [pc EXCEPT ![p] = "delete_connect"]
    /\ op' = [op EXCEPT ![p] = "delete"]
    /\ pre' = [pre EXCEPT ![p] = cores]
    /\ UNCHANGED <<remote, outer, conn, errmsg, diff, idx, calls, failed, result, again,
                   debug>>

\* not data_dict.get('filters'): the key is missing, or the mapping is empty
NoFilters(F) == ~F.present \/ F.items = <<>>

\* (mutant) the answer of the probe is not looked at
Connected_Always(o) == TRUE

\* line 287: conn is the connection handed in, or the probe's answer, which
\* is a connection only when the ping answered OK
Connected(o) == o \in {"given", "ok"}

\* lines 285-292: the probe, the return when there is no connection, and the
\* choice between the whole core and the filtered records
DeleteConnect(p) ==
    /\ pc[p] = "delete_connect"
    /\ \E o \in IF connection[p] THEN {"given"} ELSE PingOutcomes(cores[Rid(p)]) :
        /\ conn' = [conn EXCEPT ![p] = Connected(o)]
        /\ IF o = "given" THEN UNCHANGED <<calls, failed>> ELSE LogPing(p, o)
        /\ IF ~Connected(o)
           THEN End(p, "ok") /\ UNCHANGED idx
           ELSE /\ Goto(p, IF NoFilters(data_dict[p].filters) THEN "delete_all"
                           ELSE "delete_filtered")
                /\ idx' = [idx EXCEPT ![p] = 1]
                /\ UNCHANGED result
    /\ UNCHANGED <<remote, outer, op, data_dict, connection, errmsg, diff, pre, again, debug>>

\* a request on a connection, as pysolr issues it: a core that is not loaded
\* cannot answer
SolrOutcomes(core) == IF core.loaded THEN {"ok", "SolrError"} ELSE {"SolrError"}

\* the documents a delete-by-query leaves: '*:*' matches every document,
\* 'key:value' those whose field key holds value
DocsAfterDelete(docs, key, value) ==
    IF key = "*" THEN {} ELSE {d \in docs : d[key] # value}

\* conn.delete(q=..., commit=False), and the raise on SolrError
DeleteByQuery(p, key, value, msg, next) ==
    \E o \in SolrOutcomes(cores[Rid(p)]) :
        /\ errmsg' = [errmsg EXCEPT ![p] = msg]
        /\ Log(p, [api |-> "delete-by-query", core |-> Rid(p),
                   body |-> [q |-> key \o ":" \o value, commit |-> FALSE],
                   outcome |-> o])
        /\ IF o = "ok"
           THEN /\ cores' = [cores EXCEPT ![Rid(p)].docs =
                                DocsAfterDelete(@, key, value)]
                /\ IF next = "done" THEN End(p, "ok") ELSE Goto(p, next) /\ UNCHANGED result
                /\ UNCHANGED debug
           ELSE /\ RaiseSearchException(p, msg)
                /\ UNCHANGED cores

\* (mutant) the unload follows the delete-all at once, with no commit
DeleteAll_NoCommit(p) ==
    /\ pc[p] = "delete_all"
    /\ DeleteByQuery(p, "*", "*", "Could not delete SOLR core", "delete_unload")
    /\ UNCHANGED <<active, outer, op, data_dict, connection, conn, diff, idx, pre, again>>

\* lines 293-298
DeleteAll(p) ==
    /\ pc[p] = "delete_all"
    /\ DeleteByQuery(p, "*", "*", "Could not delete SOLR core", "delete_commit")
    /\ UNCHANGED <<active, outer, op, data_dict, connection, conn, diff, idx, pre, again>>

\* line 299: conn.commit(waitSearcher=False), outside any try
DeleteCommit(p) ==
    /\ pc[p] = "delete_commit"
    /\ \E o \in SolrOutcomes(cores[Rid(p)]) :
        /\ Log(p, [api |-> "commit", core |-> Rid(p),
                   body |-> [waitSearcher |-> FALSE], outcome |-> o])
        /\ IF o = "ok"
           THEN /\ cores' = [cores EXCEPT ![Rid(p)].visible = cores[Rid(p)].docs]
                /\ Goto(p, "delete_unload")
                /\ UNCHANGED result
           ELSE /\ End(p, "SolrError")
                /\ UNCHANGED cores
    /\ UNCHANGED <<active, outer, op, data_dict, connection, conn, errmsg, diff, idx, pre,
                   again, debug>>

\* what the cores endpoint may answer to an unload: a core that is not
\* loaded is refused; the request may also fail in transport
UnloadOutcomes(core) ==
    IF core.loaded THEN {"ok", "error", "RequestException"}
    ELSE {"error", "RequestException"}

\* lines 300-306: POST cores/<core_name>/unload, and the check of its answer
DeleteUnload(p) ==
    /\ pc[p] = "delete_unload"
    /\ \E o \in UnloadOutcomes(cores[Rid(p)]) :
        /\ Log(p, [api |-> "unload", core |-> Rid(p), body |-> <<>>, outcome |-> o])
        /\ cores' = IF o = "ok" THEN [cores EXCEPT ![Rid(p)] = Unloaded(@)] ELSE cores
        /\ IF o = "ok" THEN End(p, "ok") /\ UNCHANGED debug
           ELSE IF o = "error" THEN RaiseSearchException(p, errmsg[p])
           ELSE End(p, "RequestException") /\ UNCHANGED debug
    /\ UNCHANGED <<active, outer, op, data_dict, connection, conn, errmsg, diff, idx, pre,
                   again>>

\* (mutant) the last filter's deletion is followed by the commit
DeleteFiltered_Commit(p) ==
    /\ pc[p] = "delete_filtered"
    /\ LET F == data_dict[p].filters.items
           last == idx[p] = Len(F)
       IN  /\ DeleteByQuery(p, F[idx[p]].key, F[idx[p]].value,
                            "Could not delete records",
                            IF last THEN "delete_commit" ELSE "delete_filtered")
           /\ idx' = [idx EXCEPT ![p] = IF pc'[p] = "delete_filtered" THEN @ + 1 ELSE @]
    /\ UNCHANGED <<active, outer, op, data_dict, connection, conn, diff, pre, again>>

\* lines 308-316: one pass of the loop over the filters
DeleteFiltered(p) ==
    /\ pc[p] = "delete_filtered"
    /\ LET F == data_dict[p].filters.items
           last == idx[p] = Len(F)
       IN  /\ DeleteByQuery(p, F[idx[p]].key, F[idx[p]].value,
                            "Could not delete records",
                            IF last THEN "done" ELSE "delete_filtered")
           /\ idx' = [idx EXCEPT ![p] = IF pc'[p] = "delete_filtered" THEN @ + 1 ELSE @]
    /\ UNCHANGED <<active, outer, op, data_dict, connection, conn, diff, pre, again>>

(***************************************************************************)
(* upsert, lines 223-257.  The create of line 241 runs as the create       *)
(* actions above, on the fields of create_dict and with no connection; its *)
(* raise ends the upsert, its return leads on to the probe of line 242.    *)
(***************************************************************************)
\* data_dict['records']: documents, in the order given
RecordLists == SeqsUpTo(Docs, MaxRecords)

\* an upsert request arrives: upsert(context, data_dict, connection), for
\* resource r1, with any records, with or without a connection
CallUpsert(p) ==
    /\ p \in active
    /\ pc[p] = "idle"
    /\ \E R \in RecordLists, given \in BOOLEAN :
        /\ records' = [records EXCEPT ![p] = R]
        /\ connection' = [connection EXCEPT ![p] = given]
    /\ data_dict' = [data_dict EXCEPT ![p] = NoArgs]
    /\ pc' = [pc EXCEPT ![p] = "upsert_connect"]
    /\ op' = [op EXCEPT ![p] = "upsert"]
    /\ pre' = [pre EXCEPT ![p] = cores]
    /\ UNCHANGED <<remote, ds, conn, errmsg, diff, idx, calls, failed, result,
                   again, debug>>

\* line 249: on to the add loop when data_dict['records'] is not empty, and
\* the return when it is
ToRecords(p) ==
    IF records[p] # <<>>
    THEN /\ Goto(p, "upsert_add")
         /\ idx' = [idx EXCEPT ![p] = 1]
         /\ UNCHANGED result
    ELSE /\ End(p, "ok")
         /\ UNCHANGED idx

\* lines 232-234: the probe, and the choice between the records and the
\* provision of the core
UpsertConnect(p) ==
    /\ pc[p] = "upsert_connect"
    /\ \E o \in IF connection[p] THEN {"given"} ELSE PingOutcomes(cores[Rid(p)]) :
        /\ conn' = [conn EXCEPT ![p] = Connected(o)]
        /\ IF o = "given" THEN UNCHANGED <<calls, failed>> ELSE LogPing(p, o)
        /\ IF Connected(o) THEN ToRecords(p)
           ELSE Goto(p, "datastore_search") /\ UNCHANGED <<idx, result>>
    /\ UNCHANGED <<remote, outer, op, data_dict, connection, errmsg, diff, pre,
                   again, debug>>

\* (mutant) create_dict carries no field
CreateDictFields_None(fields) == <<>>

\* lines 239-240: the fields of create_dict, the default ones left out
CreateDictFields(fields) ==
    SelectSeq(fields, LAMBDA f : f.id \notin default_solr_fields)

\* lines 235-241: the data source's fields as datastore_search gives them
\* with limit 0, or its ObjectNotFound for a resource the DataStore has not;
\* then the call of create with create_dict and no connection
DatastoreSearch(p) ==
    /\ pc[p] = "datastore_search"
    /\ \E o \in {"ok", "ObjectNotFound"} :
        /\ Log(p, [api |-> "datastore_search", core |-> Rid(p),
                   body |-> [limit |-> 0], outcome |-> o])
        /\ IF o = "ok"
           THEN /\ \E fields \in FieldLists :
                    /\ ds' = [ds EXCEPT ![p] = fields]
                    /\ data_dict' = [data_dict EXCEPT ![p].fields =
                                       CreateDictFields(fields)]
                /\ connection' = [connection EXCEPT ![p] = FALSE]
                /\ Goto(p, "create_connect")
                /\ UNCHANGED result
           ELSE /\ End(p, "ObjectNotFound")
                /\ UNCHANGED <<ds, data_dict, connection>>
    /\ UNCHANGED <<remote, records, op, conn, errmsg, diff, idx, pre, again, debug>>

\* lines 242-245: the probe after create, and the raise when it gives no
\* connection
UpsertReconnect(p) ==
    /\ pc[p] = "upsert_reconnect"
    /\ \E o \in PingOutcomes(cores[Rid(p)]) :
        /\ conn' = [conn EXCEPT ![p] = Connected(o)]
        /\ LogPing(p, o)
        /\ IF Connected(o) THEN ToRecords(p) /\ UNCHANGED errmsg
           ELSE /\ errmsg' = [errmsg EXCEPT ![p] = "Failed to index records"]
                /\ End(p, "DatastoreSearchException")
                /\ UNCHANGED idx
    /\ UNCHANGED <<remote, outer, op, data_dict, connection, diff, pre, again,
                   debug>>

\* (mutant) every document is committed as it is added
AddBody_Commit(r) == [docs |-> <<r>>, commit |-> TRUE]

\* line 252: the arguments of conn.add
AddBody(r) == [docs |-> <<r>>, commit |-> FALSE]

\* a core after an add the server applied: a document replaces the one of
\* its _id, and a commit shows a search the documents
CoreAfterAdd(core, body) ==
    LET added == {d \in core.docs : \A i \in DOMAIN body.docs : d._id # body.docs[i]._id}
                    \cup Range(body.docs)
    IN  [core EXCEPT !.docs = added,
                     !.visible = IF body.commit THEN added ELSE @]

\* lines 250-256: one pass of the loop over the records
UpsertAdd(p) ==
    /\ pc[p] = "upsert_add"
    /\ LET r == records[p][idx[p]]
       IN  \E o \in SolrOutcomes(cores[Rid(p)]) :
            /\ Log(p, [api |-> "add", core |-> Rid(p), body |-> AddBody(r),
                       outcome |-> o])
            /\ IF o = "ok"
               THEN /\ cores' = [cores EXCEPT ![Rid(p)] = CoreAfterAdd(@, AddBody(r))]
                    /\ IF idx[p] < Len(records[p])
                       THEN /\ idx' = [idx EXCEPT ![p] = @ + 1]
                            /\ UNCHANGED pc
                       ELSE /\ Goto(p, "upsert_commit")
                            /\ UNCHANGED idx
                    /\ UNCHANGED <<errmsg, result, debug>>
               ELSE /\ errmsg' = [errmsg EXCEPT ![p] = "Failed to index records"]
                    /\ RaiseSearchException(p, "Failed to index records")
                    /\ UNCHANGED <<cores, idx>>
    /\ UNCHANGED <<active, outer, op, data_dict, connection, conn, diff, pre, again>>

\* line 257: conn.commit(waitSearcher=False), outside any try
UpsertCommit(p) ==
    /\ pc[p] = "upsert_commit"
    /\ \E o \in SolrOutcomes(cores[Rid(p)]) :
        /\ Log(p, [api |-> "commit", core |-> Rid(p),
                   body |-> [waitSearcher |-> FALSE], outcome |-> o])
        /\ cores' = IF o = "ok"
                    THEN [cores EXCEPT ![Rid(p)].visible = cores[Rid(p)].docs]
                    ELSE cores
        /\ End(p, IF o = "ok" THEN "ok" ELSE "SolrError")
    /\ UNCHANGED <<active, outer, op, data_dict, connection, conn, errmsg, diff, idx,
                   pre, again, debug>>

(***************************************************************************)
(* The create requests for resource r1; the core of r2 stands by.          *)
(***************************************************************************)
Next ==
    \E p \in Callers :
        \/ CallCreate(p)
        \/ CreateConnect(p)
        \/ CreateCore(p)
        \/ CreateReconnect(p)
        \/ ReadSchema(p)
        \/ Diff(p)
        \/ AddField(p)
        \/ UpdateField(p)
        \/ RemoveField(p)
        \/ CreateReturn(p)
        \/ CreateAgain(p)
        \/ Return(p)

Spec == Init /\ [][Next]_vars

(***************************************************************************)
(* The delete requests of one caller, on cores that hold documents.        *)
(***************************************************************************)
\* the document sets a core may hold: at most one document of each id
DocSets == {S \in SUBSET Docs : \A d, e \in S : d._id = e._id => d = e}

InitDelete ==
    /\ Idle
    /\ active = {"c1"}
    /\ \E c \in {NoCore} \cup {[Bystander EXCEPT !.docs = S, !.visible = S] :
                                 S \in DocSets} :
         cores = [r \in Resources |-> IF r = "r1" THEN c ELSE Bystander]
    /\ pre = [p \in Callers |-> cores]

NextDelete ==
    \E p \in Callers :
        \/ CallDelete(p)
        \/ DeleteConnect(p)
        \/ DeleteAll(p)
        \/ DeleteCommit(p)
        \/ DeleteUnload(p)
        \/ DeleteFiltered(p)
        \/ Return(p)

SpecDelete == InitDelete /\ [][NextDelete]_vars

(***************************************************************************)
(* One upsert request for resource r1, whose core is absent, or loaded:    *)
(* new, or with a column and a document, or with two columns.              *)
(***************************************************************************)
InitUpsert ==
    /\ Idle
    /\ active = {"c1"}
    /\ \E c \in {NoCore, NewCore, Bystander,
                 [NewCore EXCEPT !.schema = DefaultSchema \cup
                     {IndexField("a", "int"), IndexField("b", "int")}]} :
         cores = [r \in Resources |-> IF r = "r1" THEN c ELSE Bystander]
    /\ pre = [p \in Callers |-> cores]

NextUpsert ==
    \E p \in Callers :
        \/ CallUpsert(p)
        \/ UpsertConnect(p)
        \/ DatastoreSearch(p)
        \/ CreateConnect(p)
        \/ CreateCore(p)
        \/ CreateReconnect(p)
        \/ ReadSchema(p)
        \/ Diff(p)
        \/ AddField(p)
        \/ UpdateField(p)
        \/ RemoveField(p)
        \/ CreateReturn(p)
        \/ UpsertReconnect(p)
        \/ UpsertAdd(p)
        \/ UpsertCommit(p)

SpecUpsert == InitUpsert /\ [][NextUpsert]_vars

(***************************************************************************)
(* Two create requests at once for resource r1.  Nothing in the backend    *)
(* orders the remote calls of two callers: any caller takes the next step. *)
(***************************************************************************)
\* the field lists of concurrent requests: columns "a" and "b" with mapped
\* types
ConcurrentFieldLists ==
    {D \in FieldLists :
        \A i \in DOMAIN D : /\ D[i].id \notin default_solr_fields
                            /\ D[i].type \in {"integer", "text"}}

\* a create request arrives with no connection, as CallCreate takes it
CallCreateConcurrent(p) ==
    /\ p \in active
    /\ pc[p] = "idle"
    /\ \E D \in ConcurrentFieldLists :
        data_dict' = [data_dict EXCEPT ![p] = [NoArgs EXCEPT !.fields = D]]
    /\ connection' = [connection EXCEPT ![p] = FALSE]
    /\ pc' = [pc EXCEPT ![p] = "create_connect"]
    /\ op' = [op EXCEPT ![p] = "create"]
    /\ pre' = [pre EXCEPT ![p] = cores]
    /\ UNCHANGED <<remote, outer, conn, errmsg, diff, idx, calls, failed, result,
                   again, debug>>

InitConcurrent ==
    /\ Idle
    /\ active = Callers
    /\ \E c \in {NoCore, NewCore,
                 [NewCore EXCEPT !.schema = DefaultSchema \cup
                     {IndexField("a", "int"), IndexField("b", "int")}]} :
         cores = [r \in Resources |-> IF r = "r1" THEN c ELSE Bystander]
    /\ pre = [p \in Callers |-> cores]

NextConcurrent ==
    \E p \in Callers :
        \/ CallCreateConcurrent(p)
        \/ CreateConnect(p)
        \/ CreateCore(p)
        \/ CreateReconnect(p)
        \/ ReadSchema(p)
        \/ Diff(p)
        \/ AddField(p)
        \/ UpdateField(p)
        \/ RemoveField(p)
        \/ CreateReturn(p)

SpecConcurrent == InitConcurrent /\ [][NextConcurrent]_vars

(***************************************************************************)
(* What the properties below speak of.                                     *)
(***************************************************************************)
SchemaApis == {"add-field", "replace-field", "delete-field"}

\* the calls of one kind a caller issued, and the names they carry
CallsOf(p, api) == SelectSeq(calls[p], LAMBDA c : c.api = api)
NamesCalled(p, api) == {c.body.name : c \in Range(CallsOf(p, api))}
CallsFor(p, api, n) == SelectSeq(CallsOf(p, api), LAMBDA c : c.body.name = n)

\* the schema-mutation calls a caller issued
SchemaMutations(p) == SelectSeq(calls[p], LAMBDA c : c.api \in SchemaApis)

\* every field of a scheduled list was sent and the server applied it
AllApplied(p, api, list) ==
    \A i \in DOMAIN list :
        \E c \in Range(CallsOf(p, api)) : c.body = list[i] /\ c.outcome = "ok"

\* the caller runs create and has computed its diff
DiffDone(p) == op[p] = "create" /\ idx[p] >= 1

\* the caller's create has read the schema
SchemaRead(p) ==
    /\ op[p] = "create"
    /\ \E c \in Range(CallsOf(p, "schema/fields")) : c.outcome = "ok"

\* the live schema as the caller read it, and its desired fields
Live(p) == Range(solr_fields[p])
Desired(p) == Range(data_dict[p].fields)
DesiredIds(p) == {f.id : f \in Desired(p)}

\* the create returned and none of its remote calls failed
CreateSucceeded(p) ==
    op[p] = "create" /\ pc[p] = "done" /\ result[p] = "ok" /\ ~failed[p]

NonDefault(schema) == {f \in schema : f.name \notin default_solr_fields}
NameTypes(schema) == {<<f.name, f.type>> : f \in schema}

(***************************************************************************)
(* C1.  When create(resource_id, D) runs alone, no remote call fails, and  *)
(* the ids of D are unique, none a default field name, and every type is   *)
(* mapped, then on return the non-default fields of the live schema are    *)
(* exactly the ids of D, each with type field_type_map[type], and the      *)
(* default fields are present, as they were before.                        *)
(***************************************************************************)
C1_CreateReconciles ==
    \A p \in Callers :
        ( /\ CreateSucceeded(p)
          /\ \A f \in Desired(p) : /\ f.id \notin default_solr_fields
                                   /\ f.type \in DOMAIN field_type_map
          /\ Cardinality(DesiredIds(p)) = Len(data_dict[p].fields) )
        => LET core == cores[Rid(p)]
               before == pre[p][Rid(p)]
           IN  /\ core.loaded
               /\ NameTypes(NonDefault(core.schema)) =
                    {<<f.id, field_type_map[f.type]>> : f \in Desired(p)}
               /\ core.schema \ NonDefault(core.schema) =
                    (IF before.loaded THEN before.schema \ NonDefault(before.schema)
                     ELSE DefaultSchema)
               /\ Names(core.schema) \cap default_solr_fields = default_solr_fields

\* a create that added a field and retyped another has returned
C1_Witness ==
    \E p \in Callers :
        /\ CreateSucceeded(p)
        /\ DesiredIds(p) \cap default_solr_fields = {}
        /\ CallsOf(p, "add-field") # <<>>
        /\ CallsOf(p, "replace-field") # <<>>

(***************************************************************************)
(* C2.  When the desired fields equal the live schema modulo the default   *)
(* fields (the same names, each desired type mapping to the live type),    *)
(* create issues no add-field, replace-field or delete-field call and      *)
(* finds nothing changed; and a create repeated right after a successful   *)
(* one issues no schema-mutation call.                                     *)
(***************************************************************************)
EqualModuloDefaults(p) ==
    /\ DesiredIds(p) \ default_solr_fields = Names(NonDefault(Live(p)))
    /\ \A f \in Desired(p) :
          f.id \notin default_solr_fields =>
             /\ f.type \in DOMAIN field_type_map
             /\ field_type_map[f.type] = FieldOf(Live(p), f.id).type

C2_Idempotent ==
    \A p \in Callers :
        /\ (SchemaRead(p) /\ EqualModuloDefaults(p)) =>
              /\ SchemaMutations(p) = <<>>
              /\ DiffDone(p) => ~Changed(p)
        /\ (op[p] = "create" /\ again[p]) => SchemaMutations(p) = <<>>

(***************************************************************************)
(* C3.  For a desired field present among the live schema's non-default    *)
(* fields, create schedules a replace-field exactly when the field's       *)
(* mapped type differs from the live type: none when two native types map  *)
(* to the same index type.  Every replace-field call issued is a scheduled *)
(* one, issued once, and a create that succeeds has issued each.           *)
(***************************************************************************)
C3_ReplaceIffTypeDiffers ==
    \A p \in Callers :
        DiffDone(p) =>
            LET scheduled == {f.name : f \in Range(updated_fields[p])}
            IN  /\ \A f \in Desired(p) :
                      f.id \in Names(NonDefault(Live(p))) =>
                         /\ (f.id \in scheduled) <=>
                               (field_type_map[f.type] # FieldOf(Live(p), f.id).type)
                         /\ f.id \in scheduled =>
                               \E u \in Range(updated_fields[p]) :
                                  u.name = f.id /\ u.type = field_type_map[f.type]
                /\ Len(updated_fields[p]) = Cardinality(scheduled)
                /\ scheduled \subseteq DesiredIds(p) \cap Names(NonDefault(Live(p)))
                /\ \A n \in NamesCalled(p, "replace-field") :
                      n \in scheduled /\ Len(CallsFor(p, "replace-field", n)) = 1
                /\ \A c \in Range(CallsOf(p, "replace-field")) :
                      c.body \in Range(updated_fields[p])
                /\ CreateSucceeded(p) => NamesCalled(p, "replace-field") = scheduled

\* a create returned that found a bigint column live as int, and that
\* retyped another column
C3_Witness ==
    \E p \in Callers :
        /\ CreateSucceeded(p)
        /\ \E f \in Desired(p) :
              /\ f.type = "bigint"
              /\ f.id \in Names(NonDefault(Live(p)))
              /\ FieldOf(Live(p), f.id).type = "int"
        /\ CallsOf(p, "replace-field") # <<>>

(***************************************************************************)
(* C4.  A create that meets no failure issues, for every desired field     *)
(* absent from the live schema, exactly one add-field call, carrying the   *)
(* field id as name, type field_type_map[type], stored true and indexed    *)
(* true; and no create ever issues an add-field call for a name the live   *)
(* schema holds.                                                           *)
(***************************************************************************)
C4_OneAddPerAbsentField ==
    \A p \in Callers :
        /\ CreateSucceeded(p) =>
              \A f \in Desired(p) :
                 f.id \notin Names(Live(p)) =>
                    /\ Len(CallsFor(p, "add-field", f.id)) = 1
                    /\ CallsFor(p, "add-field", f.id)[1].body =
                          [name |-> f.id, type |-> field_type_map[f.type],
                           stored |-> TRUE, indexed |-> TRUE]
        /\ SchemaRead(p) => NamesCalled(p, "add-field") \cap Names(Live(p)) = {}

(***************************************************************************)
(* C5.  In a create that computes its diff, the names scheduled for        *)
(* delete-field are the live schema's names, less the default field names, *)
(* less the desired ids, each once.  Every delete-field call issued is for *)
(* a scheduled name, once; none is for a default field or a desired id;    *)
(* and a create that succeeds has removed each scheduled name.             *)
(***************************************************************************)
C5_RemovalsAreStaleFields ==
    \A p \in Callers :
        /\ DiffDone(p) =>
              LET scheduled == {f.name : f \in Range(remove_fields[p])}
              IN  /\ scheduled = (Names(Live(p)) \ default_solr_fields) \ DesiredIds(p)
                  /\ Len(remove_fields[p]) = Cardinality(scheduled)
                  /\ \A n \in NamesCalled(p, "delete-field") :
                        n \in scheduled /\ Len(CallsFor(p, "delete-field", n)) = 1
                  /\ CreateSucceeded(p) =>
                        /\ NamesCalled(p, "delete-field") = scheduled
                        /\ Names(cores[Rid(p)].schema) \cap scheduled = {}
        /\ op[p] = "create" =>
              NamesCalled(p, "delete-field") \cap (default_solr_fields \cup DesiredIds(p)) = {}

\* a create returned that removed a stale column and kept a desired one
C5_Witness ==
    \E p \in Callers :
        /\ CreateSucceeded(p)
        /\ CallsOf(p, "delete-field") # <<>>
        /\ DesiredIds(p) \cap Names(Live(p)) # {}

(***************************************************************************)
(* C6.  Whatever the desired fields, a field with a default field name     *)
(* among them included, create issues no add-field and no replace-field    *)
(* call whose name is a default field name.                                *)
(***************************************************************************)
C6_DefaultsNeverAddedOrReplaced ==
    \A p \in Callers :
        op[p] = "create" =>
            (NamesCalled(p, "add-field") \cup NamesCalled(p, "replace-field"))
                \cap default_solr_fields = {}

(***************************************************************************)
(* C7.  A create whose desired fields hold a non-default field of a type   *)
(* with no entry in field_type_map fails, and issues no add-field,         *)
(* replace-field or delete-field call at any point, so the schema of a     *)
(* core that was live stays as it was: wherever the field stands in the    *)
(* list and whatever the other fields would have changed.                  *)
(***************************************************************************)
UnmappedAt(p, i) ==
    /\ data_dict[p].fields[i].id \notin default_solr_fields
    /\ data_dict[p].fields[i].type \notin DOMAIN field_type_map

C7_UnmappedTypeNoMutation ==
    \A p \in Callers :
        (op[p] = "create" /\ \E i \in DOMAIN data_dict[p].fields : UnmappedAt(p, i)) =>
            /\ SchemaMutations(p) = <<>>
            /\ pc[p] = "done" => result[p] # "ok"
            /\ pc[p] \notin {"add_fields", "update_fields", "remove_fields",
                             "create_return"}
            /\ pre[p][Rid(p)].loaded => cores[Rid(p)].schema = pre[p][Rid(p)].schema

\* a create failed on the type of its last field, a column the live schema
\* holds, after a first field that the live schema lacks
C7_Witness ==
    \E p \in Callers :
        /\ op[p] = "create" /\ pc[p] = "done" /\ result[p] = "KeyError"
        /\ Len(data_dict[p].fields) = 2
        /\ UnmappedAt(p, 2)
        /\ data_dict[p].fields[1].type \in DOMAIN field_type_map
        /\ data_dict[p].fields[1].id \notin Names(Live(p))
        /\ data_dict[p].fields[2].id \in Names(Live(p))

(***************************************************************************)
(* C8.  A create for a core that does not exist, given a non-default       *)
(* desired field of unmapped type, fails without issuing the create-core   *)
(* call, so that no core exists afterwards.                                *)
(***************************************************************************)
C8_UnmappedTypeBeforeCreateCore ==
    \A p \in Callers :
        ( /\ op[p] = "create"
          /\ ~pre[p][Rid(p)].loaded
          /\ \E i \in DOMAIN data_dict[p].fields : UnmappedAt(p, i) ) =>
            /\ CallsOf(p, "create-core") = <<>>
            /\ ~cores[Rid(p)].loaded

(***************************************************************************)
(* C9.  A delete with empty or missing filters on a loaded core, when no   *)
(* remote call fails, issues delete-by-query '*:*', then a commit, then    *)
(* the unload, in that order and nothing else; afterwards the core holds   *)
(* no document, is unloaded, and a probe of it reports absent.  No delete  *)
(* ever issues the unload before its delete-all has succeeded.             *)
(***************************************************************************)
\* the calls a caller issued after its probe
AfterProbe(p) == SelectSeq(calls[p], LAMBDA c : c.api # "ping")

C9_DeleteWholeCore ==
    \A p \in Callers :
        /\ ( /\ op[p] = "delete" /\ pc[p] = "done"
             /\ NoFilters(data_dict[p].filters)
             /\ pre[p][Rid(p)].loaded
             /\ conn[p] /\ ~failed[p] ) =>
              /\ result[p] = "ok"
              /\ AfterProbe(p) =
                    << [api |-> "delete-by-query", core |-> Rid(p),
                        body |-> [q |-> "*:*", commit |-> FALSE], outcome |-> "ok"],
                       [api |-> "commit", core |-> Rid(p),
                        body |-> [waitSearcher |-> FALSE], outcome |-> "ok"],
                       [api |-> "unload", core |-> Rid(p), body |-> <<>>,
                        outcome |-> "ok"] >>
              /\ cores[Rid(p)].docs = {} /\ cores[Rid(p)].visible = {}
              /\ ~cores[Rid(p)].loaded
              /\ PingOutcomes(cores[Rid(p)]) = {"absent"}
        /\ op[p] = "delete" =>
              \A i \in DOMAIN calls[p] :
                 calls[p][i].api = "unload" =>
                    \E j \in 1..(i - 1) :
                       /\ calls[p][j].api = "delete-by-query"
                       /\ calls[p][j].body.q = "*:*"
                       /\ calls[p][j].outcome = "ok"

\* a delete of a whole core that held documents has returned
C9_Witness ==
    \E p \in Callers :
        /\ op[p] = "delete" /\ pc[p] = "done" /\ result[p] = "ok"
        /\ NoFilters(data_dict[p].filters)
        /\ conn[p] /\ ~failed[p]
        /\ pre[p][Rid(p)].loaded
        /\ pre[p][Rid(p)].docs # {}

(***************************************************************************)
(* C10.  A delete whose probe reports the core absent returns without      *)
(* error whatever its filters, having issued no delete-by-query, no commit *)
(* and no unload, and leaves every core as it was.                         *)
(***************************************************************************)
\* the caller's probe answered, and not with a connection
ProbedAbsent(p) == \E c \in Range(CallsOf(p, "ping")) : c.outcome # "ok"

C10_DeleteAbsentCoreNoOp ==
    \A p \in Callers :
        (op[p] = "delete" /\ ProbedAbsent(p)) =>
            /\ pc[p] = "done"
            /\ result[p] = "ok"
            /\ AfterProbe(p) = <<>>
            /\ cores = pre[p]

\* a filtered delete of a core that is not loaded has returned
C10_Witness ==
    \E p \in Callers :
        /\ op[p] = "delete" /\ pc[p] = "done"
        /\ ProbedAbsent(p)
        /\ ~NoFilters(data_dict[p].filters)
        /\ ~cores[Rid(p)].loaded

(***************************************************************************)
(* C11.  An upsert with records whose probe finds no core reads the data   *)
(* source's fields, creates the core and brings its schema to those        *)
(* fields, the default ones left out and the types mapped, before it adds  *)
(* a document, and then adds every record.  When no call fails, on return  *)
(* the core is loaded, its non-default fields are the data source's, and   *)
(* the records are its documents.                                          *)
(***************************************************************************)
\* the caller runs upsert and its probe found the core absent
UpsertFoundNoCore(p) ==
    /\ op[p] = "upsert"
    /\ calls[p] # <<>>
    /\ calls[p][1].api = "ping" /\ calls[p][1].outcome = "absent"

\* the data source's fields that are not default fields
DsOwnFields(p) == {f \in Range(ds[p]) : f.id \notin default_solr_fields}

\* an answered call of a kind stands before position i of the caller's calls
AnsweredBefore(p, api, i) ==
    \E j \in 1..(i - 1) : calls[p][j].api = api /\ calls[p][j].outcome = "ok"

\* the add calls for the records, in order, all answered
AddsOf(R) ==
    [i \in DOMAIN R |-> [api |-> "add", core |-> "r1",
                         body |-> [docs |-> <<R[i]>>, commit |-> FALSE],
                         outcome |-> "ok"]]

C11_UpsertProvisionsCore ==
    \A p \in Callers :
        (UpsertFoundNoCore(p) /\ records[p] # <<>>) =>
            /\ \A i \in DOMAIN calls[p] :
                  /\ calls[p][i].api = "create-core" =>
                        AnsweredBefore(p, "datastore_search", i)
                  /\ calls[p][i].api = "add" =>
                        /\ AnsweredBefore(p, "datastore_search", i)
                        /\ AnsweredBefore(p, "create-core", i)
                        /\ AnsweredBefore(p, "schema/fields", i)
                        /\ AllApplied(p, "add-field", new_fields[p])
                        /\ \A j \in DOMAIN calls[p] :
                              calls[p][j].api \in SchemaApis => j < i
                        /\ NameTypes(NonDefault(cores[Rid(p)].schema)) =
                              {<<f.id, field_type_map[f.type]>> : f \in DsOwnFields(p)}
            /\ (pc[p] = "done" /\ result[p] = "ok" /\ ~failed[p]) =>
                  LET core == cores[Rid(p)]
                      R == records[p]
                  IN  /\ core.loaded
                      /\ NameTypes(NonDefault(core.schema)) =
                            {<<f.id, field_type_map[f.type]>> : f \in DsOwnFields(p)}
                      /\ Names(core.schema) \cap default_solr_fields = default_solr_fields
                      /\ SelectSeq(calls[p], LAMBDA c : c.api \in {"add", "commit"}) =
                            Append(AddsOf(R),
                                   [api |-> "commit", core |-> Rid(p),
                                    body |-> [waitSearcher |-> FALSE],
                                    outcome |-> "ok"])
                      /\ \A i \in DOMAIN R :
                            \/ R[i] \in core.docs
                            \/ \E j \in DOMAIN R : j > i /\ R[j]._id = R[i]._id
                      /\ core.docs \subseteq Range(R) \cup pre[p][Rid(p)].docs
                      /\ core.visible = core.docs

\* an upsert of two records returned that found no core, the data source
\* holding _id and a column
C11_Witness ==
    \E p \in Callers :
        /\ UpsertFoundNoCore(p)
        /\ pc[p] = "done" /\ result[p] = "ok" /\ ~failed[p]
        /\ Len(records[p]) = 2
        /\ records[p][1]._id # records[p][2]._id
        /\ Len(ds[p]) = 2
        /\ "_id" \in {f.id : f \in Range(ds[p])}
        /\ DsOwnFields(p) # {}
        /\ CallsOf(p, "create-core") # <<>>
        /\ Range(records[p]) \subseteq cores[Rid(p)].docs

(***************************************************************************)
(* C12.  The value create hands back tells whether a change was applied:   *)
(* it is true exactly when at least one add-field, replace-field or        *)
(* delete-field call of the create was applied, and false when none was.   *)
(***************************************************************************)
\* bool(v) of the values a create can hand back
Truthy(v) == v \notin {"None", "False"}

\* one of the caller's schema-mutation calls was applied
Applied(p) == \E c \in Range(SchemaMutations(p)) : c.outcome = "ok"

C12_ReturnTellsChange ==
    \A p \in Callers :
        (op[p] = "create" /\ pc[p] = "done" /\ result[p] = "ok") =>
            (Truthy(CreateReturnValue(p)) <=> Applied(p))

(***************************************************************************)
(* C13.  Within one create the schema-mutation calls are ordered: the      *)
(* add-field calls, then the replace-field calls, then the delete-field    *)
(* calls.  No replace-field call is issued before every scheduled          *)
(* add-field call was answered, no delete-field call before every          *)
(* scheduled add-field and replace-field call was; and each call carries   *)
(* one field, no field being sent twice.                                   *)
(***************************************************************************)
Rank(api) == IF api = "add-field" THEN 1 ELSE IF api = "replace-field" THEN 2 ELSE 3

\* the list a call of a kind takes its field from
Scheduled(p, api) ==
    IF api = "add-field" THEN new_fields[p]
    ELSE IF api = "replace-field" THEN updated_fields[p]
    ELSE remove_fields[p]

C13_AddsThenUpdatesThenRemovals ==
    \A p \in Callers :
        op[p] = "create" =>
            LET m == SchemaMutations(p)
            IN  /\ \A i, j \in DOMAIN m : i < j => Rank(m[i].api) <= Rank(m[j].api)
                /\ CallsOf(p, "replace-field") # <<>> =>
                      AllApplied(p, "add-field", new_fields[p])
                /\ CallsOf(p, "delete-field") # <<>> =>
                      /\ AllApplied(p, "add-field", new_fields[p])
                      /\ AllApplied(p, "replace-field", updated_fields[p])
                /\ \A i \in DOMAIN m : m[i].body \in Range(Scheduled(p, m[i].api))
                /\ \A i, j \in DOMAIN m :
                      (m[i].api = m[j].api /\ m[i].body.name = m[j].body.name) => i = j
                /\ CreateSucceeded(p) =>
                      Len(m) = Len(new_fields[p]) + Len(updated_fields[p])
                                 + Len(remove_fields[p])

\* a create returned that added a column and then removed another
C13_Witness ==
    \E p \in Callers :
        /\ CreateSucceeded(p)
        /\ Len(SchemaMutations(p)) = 2
        /\ SchemaMutations(p)[1].api = "add-field"
        /\ SchemaMutations(p)[2].api = "delete-field"

(***************************************************************************)
(* C14.  The first add-field, replace-field or delete-field call that      *)
(* fails, by a transport error or by an 'error' answer, is the last call   *)
(* of its create: no further schema-mutation call, no second call for the  *)
(* same field, no call that undoes an applied one; the create ends with    *)
(* DatastoreSearchException.  The live schema is then, as at any point of  *)
(* a create running alone, the initial schema with the applied mutations.  *)
(***************************************************************************)
RECURSIVE ApplyAll(_, _)
\* a schema after the calls of m that the server applied, in order
ApplyAll(schema, m) ==
    IF m = <<>> THEN schema
    ELSE ApplyAll(IF Head(m).outcome = "ok"
                  THEN SchemaAfter(schema, Head(m).api, Head(m).body)
                  ELSE schema, Tail(m))

\* the schema the create found: the core's, or that of the core it created
InitialSchema(p) ==
    IF pre[p][Rid(p)].loaded THEN pre[p][Rid(p)].schema
    ELSE Created(pre[p][Rid(p)]).schema

C14_FailFastNoRollback ==
    \A p \in Callers :
        op[p] = "create" =>
            LET m == SchemaMutations(p)
                bad == {i \in DOMAIN m : m[i].outcome # "ok"}
            IN  /\ Cardinality(bad) <= 1
                /\ \A i \in bad :
                      /\ i = Len(m)
                      /\ calls[p][Len(calls[p])] = m[i]
                      /\ pc[p] = "done"
                      /\ result[p] = "DatastoreSearchException"
                      /\ \A j \in DOMAIN m :
                            j # i => m[j].body.name # m[i].body.name
                /\ DiffDone(p) => cores[Rid(p)].schema = ApplyAll(InitialSchema(p), m)

\* a create ended on the failure of its second schema-mutation call, the
\* first one applied
C14_Witness ==
    \E p \in Callers :
        /\ op[p] = "create" /\ pc[p] = "done"
        /\ Len(SchemaMutations(p)) = 2
        /\ SchemaMutations(p)[1].outcome = "ok"
        /\ SchemaMutations(p)[2].outcome # "ok"
        /\ cores[Rid(p)].schema # InitialSchema(p)

(***************************************************************************)
(* C15.  A create given no connection issues the create-core call exactly  *)
(* when its first probe does not give a connection, and once at most.      *)
(* When the create-core call answers with an error, or the probe after     *)
(* the creation gives no connection, the create ends with                  *)
(* DatastoreSearchException, with no schema read and no schema-mutation    *)
(* call issued.  When the first probe gives a connection no create-core    *)
(* call is issued.                                                         *)
(***************************************************************************)
C15_CreateCoreOnlyWhenAbsent ==
    \A p \in Callers :
        (op[p] = "create" /\ ~connection[p]) =>
            LET pings == CallsOf(p, "ping")
                cc == CallsOf(p, "create-core")
            IN  /\ Len(cc) <= 1
                /\ (pings # <<>> /\ pings[1].outcome = "ok") => cc = <<>>
                /\ (pings # <<>> /\ pings[1].outcome # "ok" /\ pc[p] # "create_core")
                      => Len(cc) = 1
                /\ cc # <<>> =>
                      /\ calls[p][1].api = "ping" /\ calls[p][1].outcome # "ok"
                      /\ calls[p][2] = cc[1]
                /\ ( \/ (cc # <<>> /\ cc[1].outcome = "error")
                     \/ (Len(pings) = 2 /\ pings[2].outcome # "ok") ) =>
                      /\ pc[p] = "done"
                      /\ result[p] = "DatastoreSearchException"
                      /\ CallsOf(p, "schema/fields") = <<>>
                      /\ SchemaMutations(p) = <<>>

\* a create made the core, and its probe after the creation failed
C15_Witness ==
    \E p \in Callers :
        /\ op[p] = "create" /\ ~connection[p] /\ pc[p] = "done"
        /\ Len(CallsOf(p, "create-core")) = 1
        /\ CallsOf(p, "create-core")[1].outcome = "ok"
        /\ Len(CallsOf(p, "ping")) = 2
        /\ CallsOf(p, "ping")[2].outcome # "ok"

(***************************************************************************)
(* C16.  An upsert issues one add per record, in the order of the records, *)
(* each with commit=False; one commit with waitSearcher=False, after the   *)
(* last add, exactly when every add was answered; after the first add that *)
(* fails no further add and no commit, the documents added before staying  *)
(* in the core and out of what a search sees.  With no records there is no *)
(* add and no commit.                                                      *)
(***************************************************************************)
C16_CommitDiscipline ==
    \A p \in Callers :
        op[p] = "upsert" =>
            LET adds == CallsOf(p, "add")
                commits == CallsOf(p, "commit")
                R == records[p]
                core == cores[Rid(p)]
                answered == \A i \in DOMAIN adds : adds[i].outcome = "ok"
            IN  /\ Len(adds) <= Len(R)
                /\ \A i \in DOMAIN adds :
                      /\ adds[i].body = [docs |-> <<R[i]>>, commit |-> FALSE]
                      /\ adds[i].outcome # "ok" =>
                            /\ i = Len(adds)
                            /\ calls[p][Len(calls[p])] = adds[i]
                            /\ pc[p] = "done"
                            /\ result[p] = "DatastoreSearchException"
                      /\ adds[i].outcome = "ok" =>
                            \/ R[i] \in core.docs
                            \/ \E j \in DOMAIN adds :
                                  j > i /\ adds[j].outcome = "ok" /\ R[j]._id = R[i]._id
                /\ Len(commits) <= 1
                /\ commits # <<>> =>
                      /\ R # <<>> /\ Len(adds) = Len(R) /\ answered
                      /\ calls[p][Len(calls[p])] = commits[1]
                      /\ commits[1].body = [waitSearcher |-> FALSE]
                /\ (pc[p] = "done" /\ R # <<>> /\ Len(adds) = Len(R) /\ answered) =>
                      Len(commits) = 1
                /\ (pc[p] = "done" /\ result[p] = "ok" /\ R # <<>>) =>
                      Len(adds) = Len(R)
                /\ (commits = <<>> \/ commits[1].outcome # "ok") =>
                      core.visible = pre[p][Rid(p)].visible
                /\ R = <<>> => adds = <<>> /\ commits = <<>>

\* an upsert of two records ended on the failure of the second add, the
\* first document in the core and not committed
C16_Witness ==
    \E p \in Callers :
        /\ op[p] = "upsert" /\ pc[p] = "done"
        /\ Len(CallsOf(p, "add")) = 2
        /\ CallsOf(p, "add")[1].outcome = "ok"
        /\ CallsOf(p, "add")[2].outcome # "ok"
        /\ records[p][1] \in cores[Rid(p)].docs
        /\ records[p][1] \notin cores[Rid(p)].visible

(***************************************************************************)
(* C17.  A delete with filters, on a connection, issues one delete-by-     *)
(* query per filter pair, 'key:value' with commit=False, in the order of   *)
(* the pairs, and no commit and no unload: the core stays loaded and what  *)
(* a search sees stays as it was.  The first deletion that fails ends the  *)
(* delete with DatastoreSearchException, the later pairs not sent and the  *)
(* deletions already applied left in place.                                *)
(***************************************************************************)
C17_FilteredDelete ==
    \A p \in Callers :
        (op[p] = "delete" /\ conn[p] /\ ~NoFilters(data_dict[p].filters)) =>
            LET F == data_dict[p].filters.items
                m == AfterProbe(p)
                core == cores[Rid(p)]
                before == pre[p][Rid(p)]
            IN  /\ Len(m) <= Len(F)
                /\ \A i \in DOMAIN m :
                      /\ m[i].api = "delete-by-query"
                      /\ m[i].core = Rid(p)
                      /\ m[i].body = [q |-> F[i].key \o ":" \o F[i].value,
                                      commit |-> FALSE]
                      /\ m[i].outcome # "ok" =>
                            /\ i = Len(m)
                            /\ pc[p] = "done"
                            /\ result[p] = "DatastoreSearchException"
                /\ (pc[p] = "done" /\ ~failed[p]) =>
                      Len(m) = Len(F) /\ result[p] = "ok"
                /\ core.loaded = before.loaded
                /\ core.schema = before.schema
                /\ core.visible = before.visible
                /\ core.docs = {d \in before.docs :
                                  \A i \in DOMAIN m :
                                     m[i].outcome = "ok" => d[F[i].key] # F[i].value}

\* a delete with two filters ended on the failure of the second, the first
\* having deleted a document of a loaded core
C17_Witness ==
    \E p \in Callers :
        /\ op[p] = "delete" /\ pc[p] = "done" /\ conn[p]
        /\ Len(data_dict[p].filters.items) = 2
        /\ Len(AfterProbe(p)) = 2
        /\ AfterProbe(p)[1].outcome = "ok"
        /\ AfterProbe(p)[2].outcome # "ok"
        /\ pre[p][Rid(p)].loaded
        /\ cores[Rid(p)].docs # pre[p][Rid(p)].docs

(***************************************************************************)
(* C18.  Nothing keeps two creates from creating the same core: when two   *)
(* concurrent creates for one resource have both issued the create-core    *)
(* call, the server has answered one of them at most, and a caller whose   *)
(* call was not answered has ended in failure, with no schema read and no  *)
(* schema-mutation call; and such a state, both probes having found the    *)
(* core absent, is reached.                                                *)
(***************************************************************************)
\* the caller's create has issued the create-core call
IssuedCreateCore(p) == op[p] = "create" /\ CallsOf(p, "create-core") # <<>>

C18_CreateCoreRace ==
    \A p, q \in Callers :
        (p # q /\ Rid(p) = Rid(q) /\ IssuedCreateCore(p) /\ IssuedCreateCore(q)) =>
            LET cp == CallsOf(p, "create-core")[1]
                cq == CallsOf(q, "create-core")[1]
            IN  /\ cp.body.name = cq.body.name
                /\ ~(cp.outcome = "ok" /\ cq.outcome = "ok")
                /\ cp.outcome # "ok" =>
                      /\ pc[p] = "done"
                      /\ result[p] = IF cp.outcome = "error"
                                     THEN "DatastoreSearchException"
                                     ELSE "RequestException"
                      /\ CallsOf(p, "schema/fields") = <<>>
                      /\ SchemaMutations(p) = <<>>

\* both probes found the core absent and both callers issued create-core:
\* one made the core and went on to return, the other was answered with an
\* error and failed
C18_Witness ==
    \E p, q \in Callers :
        /\ p # q
        /\ IssuedCreateCore(p) /\ IssuedCreateCore(q)
        /\ calls[p][1].api = "ping" /\ calls[p][1].outcome = "absent"
        /\ calls[q][1].api = "ping" /\ calls[q][1].outcome = "absent"
        /\ CallsOf(p, "create-core")[1].outcome = "ok"
        /\ CallsOf(q, "create-core")[1].outcome = "error"
        /\ pc[q] = "done" /\ result[q] = "DatastoreSearchException"
        /\ CreateSucceeded(p)

(***************************************************************************)
(* C19.  Each of two concurrent creates on one core reads the schema once  *)
(* and takes its diff from that read, whatever the other has changed       *)
(* since; and a state is reached where both, with different desired        *)
(* fields, have returned and the core's non-default fields are neither's   *)
(* desired fields.                                                         *)
(***************************************************************************)
\* a caller's desired fields as the schema would hold them
MappedDesired(p) == {<<f.id, field_type_map[f.type]>> : f \in Desired(p)}

C19_DiffFromOwnRead ==
    \A p \in Callers :
        op[p] = "create" =>
            /\ Len(CallsOf(p, "schema/fields")) <= 1
            /\ DiffDone(p) =>
                  LET D == data_dict[p].fields
                      own == SelectSeq(solr_fields[p],
                                       LAMBDA f : f.name \notin default_solr_fields)
                  IN  /\ SchemaRead(p)
                      /\ new_fields[p] = NewFields(D, own)
                      /\ updated_fields[p] = UpdatedFields(D, own)
                      /\ remove_fields[p] = RemoveFields(D, own)
                      /\ NamesCalled(p, "add-field") \cap Names(Live(p)) = {}
                      /\ NamesCalled(p, "delete-field") \subseteq Names(Live(p))

\* two creates on a loaded core, with different desired fields, have both
\* returned with no call failed, and the core's fields are neither's
C19_Witness ==
    \E p, q \in Callers :
        /\ p # q
        /\ CreateSucceeded(p) /\ CreateSucceeded(q)
        /\ pre[p]["r1"].loaded /\ pre[q]["r1"].loaded
        /\ MappedDesired(p) # MappedDesired(q)
        /\ NameTypes(NonDefault(cores["r1"].schema)) # MappedDesired(p)
        /\ NameTypes(NonDefault(cores["r1"].schema)) # MappedDesired(q)

\* a create has sent add-field for a name that the other create, which
\* found the same schema, had added before
C19_AddedTwice ==
    \E p, q \in Callers :
        /\ p # q
        /\ op[p] = "create" /\ op[q] = "create"
        /\ \E c \in Range(CallsOf(p, "add-field")) :
              /\ c.outcome = "error"
              /\ \E e \in Range(CallsOf(q, "add-field")) :
                    e.body.name = c.body.name /\ e.outcome = "ok"

(***************************************************************************)
(* C20.  A create, upsert or delete that ends on the failure of a remote   *)
(* call ends with DatastoreSearchException and with no other exception:    *)
(* on a failed schema read, whether the core was there or was just made,   *)
(* on a failed add or delete-by-query, and on a failed commit, whatever    *)
(* config 'debug' is.                                                      *)
(***************************************************************************)
\* the caller's operation ended on the failure of a call of one of the kinds
EndedOnFailureOf(p, apis) ==
    /\ pc[p] = "done"
    /\ calls[p] # <<>>
    /\ calls[p][Len(calls[p])].api \in apis
    /\ calls[p][Len(calls[p])].outcome # "ok"

C20_FailuresRaiseSearchException ==
    \A p \in Callers :
        EndedOnFailureOf(p, {"schema/fields", "add", "delete-by-query", "commit"}) =>
            result[p] = "DatastoreSearchException"

====
